---- MODULE Spec2Model ----
(***************************************************************************)
(* pb2obsidian: clipboard rich text -> Markdown with Obsidian image        *)
(* embeds.  The model covers process_images (discovery, renaming, moving,  *)
(* reference rewriting), slugify, the configuration layering of            *)
(* load_dotenv/parse_args and the control flow of main.                    *)
(*                                                                         *)
(* Text is modelled character by character: a string is a sequence of      *)
(* one-character strings, so substring replacement and the three regular   *)
(* expressions are computed as Python computes them.                       *)
(***************************************************************************)
EXTENDS Integers, Sequences, FiniteSets, TLC

(***************************************************************************)
(* Strings                                                                 *)
(***************************************************************************)

None == "None"

SetMin(S) == CHOOSE x \in S : \A y \in S : x <= y

SetMax(S) == CHOOSE x \in S : \A y \in S : y <= x

\* s has t as a substring starting at index i
StartsAt(s, i, t) ==
    /\ i >= 1
    /\ i + Len(t) - 1 <= Len(s)
    /\ \A k \in 1..Len(t) : s[i + k - 1] = t[k]

\* the first index j >= i with s[j] = c, or 0
FirstAt(s, i, c) ==
    LET S == {j \in i..Len(s) : s[j] = c}
    IN  IF S = {} THEN 0 ELSE SetMin(S)

Contains(s, t) == \E i \in 1..Len(s) : StartsAt(s, i, t)

RECURSIVE Concat(_)
Concat(ss) == IF ss = <<>> THEN <<>> ELSE Head(ss) \o Concat(Tail(ss))

RECURSIVE ReplaceFrom(_, _, _, _)
\* s from pos on, scanned left to right: the text up to the next occurrence
\* of old is kept, the occurrence becomes new, the scan goes on behind it
ReplaceFrom(s, old, new, pos) ==
    LET M == {i \in pos..Len(s) : StartsAt(s, i, old)}
    IN  IF M = {} THEN SubSeq(s, pos, Len(s))
        ELSE LET i == SetMin(M)
             IN  SubSeq(s, pos, i - 1) \o new
                     \o ReplaceFrom(s, old, new, i + Len(old))

\* str.replace(old, new) for a non-empty old: every non-overlapping
\* occurrence, scanning left to right
str_replace(s, old, new) == ReplaceFrom(s, old, new, 1)

Digits == <<"0", "1", "2", "3", "4", "5", "6", "7", "8", "9">>

RECURSIVE Decimal(_)
Decimal(n) ==
    IF n < 10 THEN <<Digits[n + 1]>>
    ELSE Decimal(n \div 10) \o <<Digits[(n % 10) + 1]>>

\* format(n, "03d"): zero-padded to at least three digits
Format03d(n) ==
    LET d == Decimal(n)
    IN  IF Len(d) >= 3 THEN d
        ELSE [k \in 1..(3 - Len(d)) |-> "0"] \o d

Upper == <<"A", "B", "C", "D", "E", "F", "G", "H", "I", "J", "K", "L", "M",
           "N", "O", "P", "Q", "R", "S", "T", "U", "V", "W", "X", "Y", "Z">>

Lower == <<"a", "b", "c", "d", "e", "f", "g", "h", "i", "j", "k", "l", "m",
           "n", "o", "p", "q", "r", "s", "t", "u", "v", "w", "x", "y", "z">>

LowerChar(c) ==
    IF \E k \in 1..Len(Upper) : Upper[k] = c
    THEN Lower[CHOOSE k \in 1..Len(Upper) : Upper[k] = c]
    ELSE c

\* str.lower()
str_lower(s) == [k \in 1..Len(s) |-> LowerChar(s[k])]

\* the characters \s matches
Whitespace == {" ", "\t", "\n", "\r"}

\* the characters \w matches
WordChars ==
    {Upper[k] : k \in 1..Len(Upper)} \cup {Lower[k] : k \in 1..Len(Lower)}
        \cup {Digits[k] : k \in 1..Len(Digits)} \cup {"_"}

(***************************************************************************)
(* The regular expressions of process_images                               *)
(***************************************************************************)

\* "![[" group "]]", the replacement both rewrite passes produce
Embed(group) == <<"!", "[", "[">> \o group \o <<"]", "]">>

\* !\[[^\]]*\]\(([^)]+)\) matched at index i: <<end of match, group start,
\* group end>>, or <<0, 0, 0>>.  [^\]]* stops at the first "]", which "("
\* must follow; [^)]+ stops at the first ")" and must not be empty.
MdImageMatch(s, i) ==
    IF ~StartsAt(s, i, <<"!", "[">>) THEN <<0, 0, 0>>
    ELSE LET j == FirstAt(s, i + 2, "]")
         IN  IF j = 0 \/ ~StartsAt(s, j + 1, <<"(">>) THEN <<0, 0, 0>>
             ELSE LET k == FirstAt(s, j + 2, ")")
                  IN  IF k = 0 \/ k = j + 2 THEN <<0, 0, 0>>
                      ELSE <<k, j + 2, k - 1>>

RECURSIVE MdImageSubFrom(_, _)
\* s from pos on: the text up to the leftmost match is kept, the match
\* becomes the embed of its group, the scan goes on behind the match
MdImageSubFrom(s, pos) ==
    LET M == {i \in pos..Len(s) : MdImageMatch(s, i)[1] # 0}
    IN  IF M = {} THEN SubSeq(s, pos, Len(s))
        ELSE LET i == SetMin(M)
                 m == MdImageMatch(s, i)
             IN  SubSeq(s, pos, i - 1) \o Embed(SubSeq(s, m[2], m[3]))
                     \o MdImageSubFrom(s, m[1] + 1)

\* re.sub(r"!\[[^\]]*\]\(([^)]+)\)", lambda m: f"![[{m.group(1)}]]", s)
MdImageSub(s) == MdImageSubFrom(s, 1)

SrcAttr == <<"s", "r", "c", "=", "\"">>

\* <img\s[^>]*src="([^"]+)"[^>]*/?> matched at index i.  The greedy [^>]*
\* may not cross a ">", so src=" starts at or before the first ">" after
\* "<img\s", and the longest prefix wins: the last src=" there that is
\* followed by a non-empty quoted value and, later, a ">".
ImgTagSrcAt(s, p) ==
    /\ StartsAt(s, p, SrcAttr)
    /\ LET q == FirstAt(s, p + 5, "\"")
       IN  q > p + 5 /\ FirstAt(s, q + 1, ">") # 0

\* <img\s[^>]*src="([^"]+)"[^>]*/>: only a self-closing tag matches
ImgTagMatch_SelfClosingOnly(s, i) ==
    IF ~(StartsAt(s, i, <<"<", "i", "m", "g">>) /\ i + 4 <= Len(s)
            /\ s[i + 4] \in Whitespace)
    THEN <<0, 0, 0>>
    ELSE LET g  == FirstAt(s, i + 5, ">")
             hi == IF g = 0 THEN Len(s) ELSE g - 1
             P  == {p \in (i + 5)..hi :
                       /\ ImgTagSrcAt(s, p)
                       /\ LET q == FirstAt(s, p + 5, "\"")
                          IN  s[FirstAt(s, q + 1, ">") - 1] = "/"}
         IN  IF P = {} THEN <<0, 0, 0>>
             ELSE LET p == SetMax(P)
                      q == FirstAt(s, p + 5, "\"")
                  IN  <<FirstAt(s, q + 1, ">"), p + 5, q - 1>>

ImgTagMatch(s, i) ==
    IF ~(StartsAt(s, i, <<"<", "i", "m", "g">>) /\ i + 4 <= Len(s)
            /\ s[i + 4] \in Whitespace)
    THEN <<0, 0, 0>>
    ELSE LET g  == FirstAt(s, i + 5, ">")
             hi == IF g = 0 THEN Len(s) ELSE g - 1
             P  == {p \in (i + 5)..hi : ImgTagSrcAt(s, p)}
         IN  IF P = {} THEN <<0, 0, 0>>
             ELSE LET p == SetMax(P)
                      q == FirstAt(s, p + 5, "\"")
                  IN  <<FirstAt(s, q + 1, ">"), p + 5, q - 1>>

RECURSIVE ImgTagSubFrom(_, _)
ImgTagSubFrom(s, pos) ==
    LET M == {i \in pos..Len(s) : ImgTagMatch(s, i)[1] # 0}
    IN  IF M = {} THEN SubSeq(s, pos, Len(s))
        ELSE LET i == SetMin(M)
                 m == ImgTagMatch(s, i)
             IN  SubSeq(s, pos, i - 1) \o Embed(SubSeq(s, m[2], m[3]))
                     \o ImgTagSubFrom(s, m[1] + 1)

\* re.sub(r'<img\s[^>]*src="([^"]+)"[^>]*/?>', lambda m: f"![[{m.group(1)}]]", s)
ImgTagSub(s) == ImgTagSubFrom(s, 1)

\* (\]\])(\[\[): the optional "!" forgotten
AdjacentMatch_NoBang(s, i) ==
    IF StartsAt(s, i, <<"]", "]", "[", "[">>) THEN 2 ELSE 0

\* (\]\])(!?\[\[) matched at index i: the length of the second group, or 0
AdjacentMatch(s, i) ==
    IF ~StartsAt(s, i, <<"]", "]">>) THEN 0
    ELSE IF StartsAt(s, i + 2, <<"[", "[">>) THEN 2
    ELSE IF StartsAt(s, i + 2, <<"!", "[", "[">>) THEN 3
    ELSE 0

RECURSIVE AdjacentSubFrom(_, _)
AdjacentSubFrom(s, pos) ==
    LET M == {i \in pos..Len(s) : AdjacentMatch(s, i) # 0}
    IN  IF M = {} THEN SubSeq(s, pos, Len(s))
        ELSE LET i == SetMin(M)
                 n == AdjacentMatch(s, i)
             IN  SubSeq(s, pos, i - 1) \o <<"]", "]", " ">>
                     \o SubSeq(s, i + 2, i + 1 + n)
                     \o AdjacentSubFrom(s, i + 2 + n)

\* re.sub(r"(\]\])(!?\[\[)", r"\1 \2", s)
AdjacentSub(s) == AdjacentSubFrom(s, 1)

(***************************************************************************)
(* slugify                                                                 *)
(***************************************************************************)

RECURSIVE StripChars(_, _)
StripChars(s, cs) ==
    IF s = <<>> THEN s
    ELSE IF s[1] \in cs THEN StripChars(Tail(s), cs)
    ELSE IF s[Len(s)] \in cs THEN StripChars(SubSeq(s, 1, Len(s) - 1), cs)
    ELSE s

\* re.sub(r"[^\w\s-]", "", s)
DropNonWord(s) == SelectSeq(s, LAMBDA c : c \in WordChars \cup Whitespace \cup {"-"})

\* re.sub(cs+, "_", s): every maximal run of characters of cs becomes one "_"
RECURSIVE CollapseRuns(_, _)
CollapseRuns(s, cs) ==
    IF s = <<>> THEN s
    ELSE IF s[1] \in cs
         THEN IF Len(s) >= 2 /\ s[2] \in cs
              THEN CollapseRuns(Tail(s), cs)
              ELSE <<"_">> \o CollapseRuns(Tail(s), cs)
         ELSE <<s[1]>> \o CollapseRuns(Tail(s), cs)

slugify(title) ==
    LET s1 == StripChars(str_lower(title), Whitespace)
        s2 == DropNonWord(s1)
        s3 == CollapseRuns(s2, Whitespace)
        s4 == CollapseRuns(s3, {"_"})
    IN  StripChars(s4, {"_"})

(***************************************************************************)
(* Paths.  A path below the staging directory is the sequence of its       *)
(* components; pathlib orders paths component by component, each component *)
(* by code point.                                                          *)
(***************************************************************************)

\* the characters of file names, in code-point order
Ascii == <<"-", ".", "/", "0", "1", "2", "3", "4", "5", "6", "7", "8", "9", "A", "B", "C", "D", "E", "F", "G", "H", "I", "J", "K", "L", "M", "N", "O", "P", "Q", "R", "S", "T", "U", "V", "W", "X", "Y", "Z", "_", "a", "b", "c", "d", "e", "f", "g", "h", "i", "j", "k", "l", "m", "n", "o", "p", "q", "r", "s", "t", "u", "v", "w", "x", "y", "z">>

Code(c) == CHOOSE k \in 1..Len(Ascii) : Ascii[k] = c

RECURSIVE StrLess(_, _)
\* a < b for two strings: lexicographic by code point
StrLess(a, b) ==
    IF b = <<>> THEN FALSE
    ELSE IF a = <<>> THEN TRUE
    ELSE IF Code(a[1]) < Code(b[1]) THEN TRUE
    ELSE IF Code(b[1]) < Code(a[1]) THEN FALSE
    ELSE StrLess(Tail(a), Tail(b))

RECURSIVE PathLess(_, _)
\* Path.__lt__: lexicographic over the components
PathLess(p, q) ==
    IF q = <<>> THEN FALSE
    ELSE IF p = <<>> THEN TRUE
    ELSE IF StrLess(p[1], q[1]) THEN TRUE
    ELSE IF StrLess(q[1], p[1]) THEN FALSE
    ELSE PathLess(Tail(p), Tail(q))

RECURSIVE sorted(_)
\* sorted(paths): ascending by PathLess
sorted(S) ==
    IF S = {} THEN <<>>
    ELSE LET m == CHOOSE p \in S : \A q \in S \ {p} : PathLess(p, q)
         IN  <<m>> \o sorted(S \ {m})

RECURSIVE JoinPath(_)
\* str() of a relative path: the components joined by "/"
JoinPath(parts) ==
    IF Len(parts) = 1 THEN parts[1]
    ELSE parts[1] \o <<"/">> \o JoinPath(Tail(parts))

\* str(staging_dir): the temporary directory main creates
StagingDir == <<"/", "t">>

\* str(src_path)
AbsPathStr(parts) == StagingDir \o <<"/">> \o JoinPath(parts)

\* PurePath.suffix of a file name: from its last dot, which is neither the
\* first nor the last character of the name
Suffix(name) ==
    LET D == {k \in 1..Len(name) : name[k] = "."}
    IN  IF D = {} THEN <<>>
        ELSE LET d == SetMax(D)
             IN  IF d = 1 \/ d = Len(name) THEN <<>>
                 ELSE SubSeq(name, d, Len(name))

IMAGE_EXTENSIONS ==
    { <<".", "p", "n", "g">>,
      <<".", "j", "p", "g">>,
      <<".", "j", "p", "e", "g">>,
      <<".", "g", "i", "f">>,
      <<".", "b", "m", "p">>,
      <<".", "t", "i", "f", "f">>,
      <<".", "t", "i", "f">>,
      <<".", "w", "e", "b", "p">>,
      <<".", "s", "v", "g">> }

\* p.is_file() and p.suffix.lower() in IMAGE_EXTENSIONS
IsImage(parts) == str_lower(Suffix(parts[Len(parts)])) \in IMAGE_EXTENSIONS

\* f"{base_name}.image-{image_count:03d}{ext}"
NewName(base_name, image_count, ext) ==
    base_name \o <<".", "i", "m", "a", "g", "e", "-">> \o Format03d(image_count) \o ext

DefaultExt == <<".", "p", "n", "g">>

\* resize_image on an image's pixel size: untouched within the limit,
\* otherwise max_width wide and int(height * (max_width / width)) high
resize_image(img, max_width) ==
    IF img.width <= max_width THEN img
    ELSE [img EXCEPT !.width = max_width,
                     !.height = (img.height * max_width) \div img.width]

\* a directory's files: a function from names to contents
Remove(dir, name) == [n \in DOMAIN dir \ {name} |-> dir[n]]

Put(dir, name, content) ==
    [n \in DOMAIN dir \cup {name} |-> IF n = name THEN content ELSE dir[n]]

(***************************************************************************)
(* The inputs of process_images.  A document is a sequence of segments:    *)
(* text, a Markdown image ![alt](path) or an HTML tag                      *)
(* <img src="path"attrs>.  Text may hold anything, markup included.        *)
(***************************************************************************)

MaxSegments == 2

MaxFiles == 2

Text(t) == [kind |-> "text", text |-> t, path |-> <<>>]

MdImage(alt, path) == [kind |-> "md", text |-> alt, path |-> path]

ImgTag(path, attrs) == [kind |-> "img", text |-> attrs, path |-> path]

Render(seg) ==
    CASE seg.kind = "md" ->
            <<"!", "[">> \o seg.text \o <<"]", "(">> \o seg.path \o <<")">>
      [] seg.kind = "img" ->
            <<"<", "i", "m", "g", " ">> \o SrcAttr \o seg.path \o <<"\"">>
                \o seg.text \o <<">">>
      [] OTHER -> seg.text

RECURSIVE RenderDoc(_)
RenderDoc(doc) ==
    IF doc = <<>> THEN <<>> ELSE Render(Head(doc)) \o RenderDoc(Tail(doc))

\* the files the converter may leave in the staging directory, by relative
\* path, each with the pixel size of its image
File1 == <<<<"1", ".", "p", "n", "g">>>>
FileMedia1 == <<<<"m", "e", "d", "i", "a">>, <<"1", ".", "p", "n", "g">>>>
FileRenamed == <<<<"x", ".", "i", "m", "a", "g", "e", "-", "0", "0", "1", ".", "p", "n", "g">>>>
FileUpper == <<<<"m", "e", "d", "i", "a", ".", "P", "N", "G">>>>
FileNote == <<<<"n", ".", "t", "x", "t">>>>

CandidateFiles == {File1, FileMedia1, FileRenamed, FileUpper, FileNote}

Content(parts) ==
    [id |-> parts, width |-> IF parts = File1 THEN 2000 ELSE 400, height |-> 1000]

StagingChoices ==
    {[p \in S |-> Content(p)] :
        S \in {T \in SUBSET CandidateFiles : Cardinality(T) <= MaxFiles}}

Segments ==
    { Text(<<"v", "1", ".", "p", "n", "g", " ">>),
      Text(<<"[", "[", "n", "]", "]">>),
      Text(<<"<", "i", "m", "g", " ", "s", "r", "c", "=", "\"", "a", "]", "(", "b", ")", "\"", ">">>),
      MdImage(<<"p">>, AbsPathStr(File1)),
      MdImage(<<>>, JoinPath(FileMedia1)),
      ImgTag(JoinPath(File1), <<" ", "a", "l", "t", "=", "\"", "k", "\"">>),
      ImgTag(AbsPathStr(FileMedia1), <<" ", "/">>) }

RECURSIVE SeqsUpTo(_, _)
\* the sequences over S of length at most n
SeqsUpTo(S, n) ==
    IF n = 0 THEN {<<>>}
    ELSE LET R == SeqsUpTo(S, n - 1)
         IN  R \cup {<<x>> \o r : x \in S, r \in {q \in R : Len(q) = n - 1}}

Docs == SeqsUpTo(Segments, MaxSegments)

BaseX == <<"x">>

BaseNames == {BaseX}

\* max_width: <<>> for None, <<w>> for a width
MaxWidths == {<<>>, <<800>>}

\* image_dir before the run: empty, or holding a note and the first image
\* of an earlier run under the same base name
OldImage == [id |-> <<<<"o", "l", "d">>>>, width |-> 400, height |-> 1000]

OldNote == [id |-> <<<<"k", "e", "e", "p", ".", "m", "d">>>>, width |-> 0, height |-> 0]

DestChoices ==
    { <<>>,
      [n \in {NewName(BaseX, 1, DefaultExt), <<"k", "e", "e", "p", ".", "m", "d">>} |->
          IF n = <<"k", "e", "e", "p", ".", "m", "d">> THEN OldNote ELSE OldImage] }

(***************************************************************************)
(* The inputs of a run of main                                             *)
(***************************************************************************)

\* an optional value: <<>> when absent, <<v>> when present
Absent == <<>>

Options == {"image_width", "md_dir", "image_dir"}

\* where an option's value may come from
Layers == {"flag", "environ", "cwd_dotenv", "script_dotenv"}

\* the value each layer gives an option when it sets it; the script
\* directory's .env gives a width that is no number
LayerValue(layer, o) ==
    IF o = "image_width"
    THEN CASE layer = "flag" -> "640"
           [] layer = "environ" -> "800"
           [] layer = "cwd_dotenv" -> "1024"
           [] OTHER -> "wide"
    ELSE <<layer, o>>

\* int(s) for the strings that are numbers
IntOf(s) ==
    CASE s = "640" -> 640
      [] s = "800" -> 800
      [] s = "1024" -> 1024

IsInt(s) == s \in {"640", "800", "1024"}

\* which layers set which options: md_dir in every combination, image_width
\* by at most one layer, image_dir by its flag or not at all
Settings ==
    {P \in SUBSET (Layers \X Options) :
        /\ Cardinality({l \in Layers : <<l, "image_width">> \in P}) <= 1
        /\ <<"cwd_dotenv", "image_width">> \notin P
        /\ \A l \in Layers \ {"flag"} : <<l, "image_dir">> \notin P}

LayerOf(P, layer) ==
    [o \in Options |-> IF <<layer, o>> \in P THEN <<LayerValue(layer, o)>> ELSE Absent]

Titles == {Absent, <<<<"M", "y", " ", "N", "o", "t", "e", "s">>>>, <<<<"!", "?">>>>, <<<<"X">>>>}

\* datetime.now().strftime("%Y%m%d-%H%M%S")
Timestamps == {<<"2", "0", "2", "6", "0", "2", "0", "1", "-", "0", "9", "3", "0", "0", "0">>}

Clipboards ==
    [rtf : {Absent, <<"rtf bytes">>}, html : {Absent, <<"html bytes">>},
     string : {Absent, <<"plain text">>}]

Worlds ==
    [settings : Settings, title : Titles, skip_note : BOOLEAN,
     pandoc : BOOLEAN, clipboard : Clipboards, now : Timestamps]

\* what the converter may produce: the Markdown and the extracted files
Conversions ==
    { [doc |-> <<Text(<<"H", "i", " ">>)>>, staging |-> <<>>],
      [doc |-> <<Text(<<"H", "i", " ">>), ImgTag(AbsPathStr(File1), <<" ", "/">>)>>,
       staging |-> [q \in {File1} |-> Content(q)]],
      [doc |-> <<MdImage(<<"p">>, AbsPathStr(File1)), MdImage(<<>>, JoinPath(FileRenamed))>>,
       staging |-> [q \in {File1, FileRenamed} |-> Content(q)]] }

Cwd == <<"cwd">>

(***************************************************************************)
(* State                                                                   *)
(***************************************************************************)

VARIABLES
    world,              \* the run's inputs: command line, .env files, clock,
                        \* whether pandoc is installed, the clipboard at start
    mpc,                \* position in main
    environ,            \* os.environ, the three PB2OBSIDIAN_ variables
    args,               \* the namespace parse_args returns
    locals,             \* main's source_format, base_name, md_dir, image_dir
    dirs,               \* the directories that exist
    notes,              \* the Markdown files written: <<dir, name>> -> text
    clipboard,          \* the general pasteboard
    pandoc_runs,        \* how many times the converter was invoked
    exit,               \* exit status and what was printed to stderr
    call,               \* process_images' arguments and the two directories
                        \* as they were when it was called
    pc,                 \* position in process_images
    markdown,           \* its local markdown
    extracted_images,   \* its local extracted_images
    image_count,        \* its local image_count
    staging,            \* files under staging_dir: relative path -> content
    dest                \* files in dest_dir: name -> content

mvars == <<world, mpc, environ, args, locals, dirs, notes, clipboard,
           pandoc_runs, exit>>

pvars == <<call, pc, markdown, extracted_images, image_count, staging, dest>>

vars == <<mvars, pvars>>

(***************************************************************************)
(* process_images                                                          *)
(***************************************************************************)

\* lines 113-116: the image files below staging_dir, sorted
Discovered(dir) == sorted({p \in DOMAIN dir : IsImage(p)})

\* the early return of lines 118-119 left out
AfterDiscovery_NoEarlyReturn(images) == "loop"

\* lines 118-119: where control goes after discovery
AfterDiscovery(images) == IF images = <<>> THEN "return" ELSE "loop"

\* lines 130-137: both spellings of the old path give way to the new name
SubstitutePath(md, src_path, new_name) ==
    str_replace(str_replace(md, AbsPathStr(src_path), new_name),
                JoinPath(src_path), new_name)

\* the file name an image gets (lines 124-125)
RenamedAs(base_name, count, src_path) ==
    LET suffix == Suffix(src_path[Len(src_path)])
    IN  NewName(base_name, count, IF suffix = <<>> THEN DefaultExt ELSE suffix)

\* shutil.move into dest_dir: an existing file of that name is replaced
MoveToDest(dir, name, content) == Put(dir, name, content)

Discover ==
    /\ pc = "start"
    /\ extracted_images' = Discovered(staging)
    /\ image_count' = 0
    /\ pc' = AfterDiscovery(extracted_images')
    /\ UNCHANGED <<call, markdown, staging, dest, mvars>>

\* one iteration of the loop of lines 122-147
ProcessImage ==
    /\ pc = "loop"
    /\ image_count < Len(extracted_images)
    /\ LET count       == image_count + 1
           src_path    == extracted_images[count]
           new_name    == RenamedAs(call.base_name, count, src_path)
           staged_path == <<new_name>>
       IN  /\ image_count' = count
           /\ markdown' = SubstitutePath(markdown, src_path, new_name)
           /\ IF src_path # staged_path /\ src_path \notin DOMAIN staging
              THEN \* shutil.move raises FileNotFoundError
                   /\ pc' = "raised"
                   /\ UNCHANGED <<staging, dest>>
              ELSE LET moved   == Put(Remove(staging, src_path), staged_path,
                                      staging[src_path])
                       resized == IF call.max_width = <<>>
                                  THEN moved[staged_path]
                                  ELSE resize_image(moved[staged_path],
                                                    call.max_width[1])
                   IN  /\ staging' = Remove(moved, staged_path)
                       /\ dest' = MoveToDest(dest, new_name, resized)
                       /\ pc' = "loop"
    /\ UNCHANGED <<call, extracted_images, mvars>>

\* lines 150-154
RewriteMarkdownImages ==
    /\ pc = "loop"
    /\ image_count = Len(extracted_images)
    /\ markdown' = MdImageSub(markdown)
    /\ pc' = "html"
    /\ UNCHANGED <<call, extracted_images, image_count, staging, dest, mvars>>

\* lines 157-161
RewriteImgTags ==
    /\ pc = "html"
    /\ markdown' = ImgTagSub(markdown)
    /\ pc' = "adjacent"
    /\ UNCHANGED <<call, extracted_images, image_count, staging, dest, mvars>>

\* lines 164-166
SpaceAdjacentEmbeds ==
    /\ pc = "adjacent"
    /\ markdown' = AdjacentSub(markdown)
    /\ pc' = "return"
    /\ UNCHANGED <<call, extracted_images, image_count, staging, dest, mvars>>

process_images ==
    \/ Discover
    \/ ProcessImage
    \/ RewriteMarkdownImages
    \/ RewriteImgTags
    \/ SpaceAdjacentEmbeds

(***************************************************************************)
(* main                                                                    *)
(***************************************************************************)

\* load_dotenv(path, override): a variable the file sets replaces the
\* environment's when override is true or the environment has none
load_dotenv(env, file, override) ==
    [o \in Options |->
        IF file[o] # Absent /\ (override \/ env[o] = Absent) THEN file[o] ELSE env[o]]

\* os.environ after lines 235-236
LoadedEnviron(env, script_file, cwd_file) ==
    load_dotenv(load_dotenv(env, script_file, FALSE), cwd_file, TRUE)

\* an add_argument with default=os.environ.get(...): the flag, else the default
Argument(flag, env, o) == IF flag[o] # Absent THEN flag[o] ELSE env[o]

\* parent_dir as a directory of its own below the working directory
ParentDir_Output == <<"cwd", <<"o", "u", "t", "p", "u", "t">>>>

\* parent_dir (line 241)
ParentDir == Cwd

\* parent_dir / base_name: joining an empty name gives parent_dir itself
DefaultDir(base_name) == IF base_name = <<>> THEN ParentDir ELSE <<"cwd", base_name>>

\* lines 260-264
BaseName(title, now) ==
    IF title # Absent /\ title[1] # <<>>
    THEN slugify(title[1])
    ELSE <<"c", "l", "i", "p", "b", "o", "a", "r", "d", "-">> \o now

\* detect_clipboard_format: RTF before HTML
detect_clipboard_format(pb) ==
    IF pb.rtf # Absent THEN <<"rtf", pb.rtf>>
    ELSE IF pb.html # Absent THEN <<"html", pb.html>>
    ELSE <<None, Absent>>

\* set_clipboard_text: clearContents, then the string alone
set_clipboard_text(text) == [rtf |-> Absent, html |-> Absent, string |-> <<text>>]

Exit(status, message) == [status |-> <<status>>, stderr |-> message]

Running == [status |-> Absent, stderr |-> Absent]

\* lines 234-236
LoadDotenv ==
    /\ mpc = "load_dotenv"
    /\ environ' = LoadedEnviron(environ, LayerOf(world.settings, "script_dotenv"),
                                LayerOf(world.settings, "cwd_dotenv"))
    /\ mpc' = "parse_args"
    /\ UNCHANGED <<world, args, locals, dirs, notes, clipboard, pandoc_runs,
                   exit, pvars>>

\* line 238 and parse_args: argparse applies type=int to the flag and to a
\* string default alike, and exits with status 2 on a value that is no number
ParseArgs ==
    /\ mpc = "parse_args"
    /\ LET flag  == LayerOf(world.settings, "flag")
           width == Argument(flag, environ, "image_width")
       IN  IF width # Absent /\ ~IsInt(width[1])
           THEN /\ mpc' = "exited"
                /\ exit' = Exit(2, <<"invalid int value">>)
                /\ UNCHANGED args
           ELSE /\ args' = [image_width |-> IF width = Absent THEN Absent
                                            ELSE <<IntOf(width[1])>>,
                            title       |-> world.title,
                            md_dir      |-> Argument(flag, environ, "md_dir"),
                            image_dir   |-> Argument(flag, environ, "image_dir"),
                            skip_note   |-> world.skip_note]
                /\ mpc' = "check_pandoc"
                /\ UNCHANGED exit
    /\ UNCHANGED <<world, environ, locals, dirs, notes, clipboard, pandoc_runs,
                   pvars>>

\* lines 241-248
CheckPandoc ==
    /\ mpc = "check_pandoc"
    /\ dirs' = dirs \cup {ParentDir}
    /\ IF world.pandoc
       THEN mpc' = "detect" /\ UNCHANGED exit
       ELSE mpc' = "exited" /\ exit' = Exit(1, <<"pandoc is not installed">>)
    /\ UNCHANGED <<world, environ, args, locals, notes, clipboard, pandoc_runs,
                   pvars>>

\* lines 251-264
DetectClipboard ==
    /\ mpc = "detect"
    /\ LET found == detect_clipboard_format(clipboard)
       IN  IF found[1] = None
           THEN /\ mpc' = "exited"
                /\ exit' = Exit(1, <<"No rich text (RTF or HTML) found on clipboard">>)
                /\ UNCHANGED locals
           ELSE /\ locals' = [locals EXCEPT
                                 !.source_format = found[1],
                                 !.base_name = BaseName(args.title, world.now)]
                /\ mpc' = "make_dirs"
                /\ UNCHANGED exit
    /\ UNCHANGED <<world, environ, args, dirs, notes, clipboard, pandoc_runs,
                   pvars>>

\* lines 268-274
MakeOutputDirs ==
    /\ mpc = "make_dirs"
    /\ LET default_dir == DefaultDir(locals.base_name)
           md_dir    == IF args.md_dir # Absent THEN args.md_dir[1] ELSE default_dir
           image_dir == IF args.image_dir # Absent THEN args.image_dir[1]
                        ELSE default_dir
       IN  /\ locals' = [locals EXCEPT !.md_dir = md_dir, !.image_dir = image_dir]
           /\ dirs' = dirs \cup {md_dir, image_dir}
    /\ mpc' = "convert"
    /\ UNCHANGED <<world, environ, args, notes, clipboard, pandoc_runs, exit,
                   pvars>>

\* lines 279-285: the converter writes the Markdown and the extracted
\* files, and process_images is called on them
Convert ==
    /\ mpc = "convert"
    /\ \E c \in Conversions :
          /\ call' = [doc |-> c.doc, base_name |-> locals.base_name,
                      max_width |-> args.image_width, staging |-> c.staging,
                      dest |-> dest]
          /\ markdown' = RenderDoc(c.doc)
          /\ staging' = c.staging
    /\ pandoc_runs' = pandoc_runs + 1
    /\ pc' = "start"
    /\ mpc' = "process_images"
    /\ UNCHANGED <<world, environ, args, locals, dirs, notes, clipboard, exit,
                   extracted_images, image_count, dest>>

\* process_images raised: the staging directory is removed and the run
\* ends with a traceback
Crash ==
    /\ mpc = "process_images"
    /\ pc = "raised"
    /\ staging' = <<>>
    /\ pc' = "idle"
    /\ mpc' = "exited"
    /\ exit' = Exit(1, <<"Traceback">>)
    /\ UNCHANGED <<world, environ, args, locals, dirs, notes, clipboard,
                   pandoc_runs, call, markdown, extracted_images, image_count,
                   dest>>

\* lines 287-301: process_images returned
Finish ==
    /\ mpc = "process_images"
    /\ pc = "return"
    /\ staging' = <<>>
    /\ pc' = "idle"
    /\ notes' = IF args.skip_note THEN notes
                ELSE Put(notes, <<locals.md_dir, locals.base_name \o <<".", "m", "d">>>>,
                         markdown)
    /\ clipboard' = set_clipboard_text(markdown)
    /\ mpc' = "exited"
    /\ exit' = Exit(0, Absent)
    /\ UNCHANGED <<world, environ, args, locals, dirs, pandoc_runs, call,
                   markdown, extracted_images, image_count, dest>>

main ==
    \/ LoadDotenv
    \/ ParseArgs
    \/ CheckPandoc
    \/ DetectClipboard
    \/ MakeOutputDirs
    \/ Convert
    \/ Crash
    \/ Finish

NoArgs ==
    [image_width |-> Absent, title |-> Absent, md_dir |-> Absent,
     image_dir |-> Absent, skip_note |-> FALSE]

NoLocals ==
    [source_format |-> None, base_name |-> <<>>, md_dir |-> Cwd, image_dir |-> Cwd]

(***************************************************************************)
(* Specifications                                                          *)
(***************************************************************************)

\* a whole run of main, from its first line
MainInit ==
    /\ world \in Worlds
    /\ mpc = "load_dotenv"
    /\ environ = LayerOf(world.settings, "environ")
    /\ args = NoArgs
    /\ locals = NoLocals
    /\ dirs = {Cwd}
    /\ notes = <<>>
    /\ clipboard = world.clipboard
    /\ pandoc_runs = 0
    /\ exit = Running
    /\ call = [doc |-> <<>>, base_name |-> <<>>, max_width |-> Absent,
               staging |-> <<>>, dest |-> <<>>]
    /\ pc = "idle"
    /\ markdown = <<>>
    /\ extracted_images = <<>>
    /\ image_count = 0
    /\ staging = <<>>
    /\ dest = <<>>

MainNext == main \/ process_images

SpecMain == MainInit /\ [][MainNext]_vars

\* process_images alone, called by main on any document, any extracted
\* files and any earlier content of the image directory
World0 ==
    [settings |-> {}, title |-> <<BaseX>>, skip_note |-> FALSE, pandoc |-> TRUE,
     clipboard |-> [rtf |-> Absent, html |-> <<"html bytes">>, string |-> Absent],
     now |-> <<"2", "0", "2", "6", "0", "2", "0", "1", "-", "0", "9", "3", "0", "0", "0">>]

Init ==
    /\ call \in [doc : Docs, base_name : BaseNames, max_width : MaxWidths,
                 staging : StagingChoices, dest : DestChoices]
    /\ pc = "start"
    /\ markdown = RenderDoc(call.doc)
    /\ extracted_images = <<>>
    /\ image_count = 0
    /\ staging = call.staging
    /\ dest = call.dest
    /\ world = World0
    /\ mpc = "process_images"
    /\ environ = LayerOf({}, "environ")
    /\ args = [NoArgs EXCEPT !.title = <<BaseX>>, !.image_width = call.max_width]
    /\ locals = [source_format |-> "html", base_name |-> call.base_name,
                 md_dir |-> DefaultDir(call.base_name),
                 image_dir |-> DefaultDir(call.base_name)]
    /\ dirs = {Cwd, DefaultDir(call.base_name)}
    /\ notes = <<>>
    /\ clipboard = World0.clipboard
    /\ pandoc_runs = 1
    /\ exit = Running

Next == process_images

Spec == Init /\ [][Next]_vars
(***************************************************************************)
(* Vocabulary of the properties                                            *)
(***************************************************************************)

Returned == pc = "return"

Images == Len(extracted_images)

InputMarkdown == RenderDoc(call.doc)

\* the name the k-th discovered image is given
NameOf(k) == RenamedAs(call.base_name, k, extracted_images[k])

RECURSIVE SubstituteFirst(_, _)
\* step 1 of the rewriting applied to a piece of text on its own: the
\* substitutions of the first k discovered images, in discovery order
SubstituteFirst(t, k) ==
    IF k = 0 THEN t
    ELSE SubstitutePath(SubstituteFirst(t, k - 1), extracted_images[k], NameOf(k))

\* characters that delimit image references
Markup == {"!", "(", ")", "<", ">", "\""}

Brackets == {"[", "]"}

Free(t, cs) == \A k \in 1..Len(t) : t[k] \notin cs

\* a segment whose text cannot be taken for part of an image reference and
\* whose reference, if it is one, is a single complete one
WellFormedSegment(seg) ==
    CASE seg.kind = "text" -> Free(seg.text, Markup)
      [] seg.kind = "md" ->
            /\ Free(seg.text, Markup \cup Brackets)
            /\ seg.path # <<>> /\ Free(seg.path, Markup \cup Brackets)
      [] seg.kind = "img" ->
            /\ seg.path # <<>> /\ Free(seg.path, Markup \cup Brackets)
            /\ Free(seg.text, Markup \ {"\""}) /\ ~Contains(seg.text, SrcAttr)

WellFormed(doc) == \A k \in 1..Len(doc) : WellFormedSegment(doc[k])

IsReference(seg) == seg.kind \in {"md", "img"}

\* the discovered images a reference's path names, absolutely or relatively
PointsAt(seg) ==
    {k \in 1..Images :
        IsReference(seg) /\ seg.path \in {AbsPathStr(extracted_images[k]),
                                          JoinPath(extracted_images[k])}}

\* s holds a "]]" directly followed by "[[" or "![["
AdjacentAt(s, i) ==
    /\ StartsAt(s, i, <<"]", "]">>)
    /\ StartsAt(s, i + 2, <<"[", "[">>) \/ StartsAt(s, i + 2, <<"!", "[", "[">>)

NoAdjacency(s) == \A i \in 1..Len(s) : ~AdjacentAt(s, i)

\* s with one space put after every "]]" that "[[" or "![[" directly follows
Spaced(s) ==
    LET P      == {i \in 1..Len(s) : AdjacentAt(s, i)}
        ins(k) == Cardinality({i \in P : i + 1 < k})
    IN  [n \in 1..(Len(s) + Cardinality(P)) |->
            IF \E k \in 1..Len(s) : k + ins(k) = n
            THEN s[CHOOSE k \in 1..Len(s) : k + ins(k) = n]
            ELSE " "]

\* s holds ![alt](path): alt without "]" or newline, path without ")"
HasMarkdownImage(s) ==
    \E i \in 1..Len(s) :
        /\ StartsAt(s, i, <<"!", "[">>)
        /\ LET j == FirstAt(s, i + 2, "]")
           IN  /\ j # 0
               /\ \A m \in (i + 2)..(j - 1) : s[m] # "\n"
               /\ StartsAt(s, j + 1, <<"(">>)
               /\ FirstAt(s, j + 2, ")") # 0

\* s holds <img ... src="..." ...>
HasImgTag(s) ==
    \E i \in 1..Len(s), p \in 1..Len(s) :
        /\ StartsAt(s, i, <<"<", "i", "m", "g">>)
        /\ i + 4 < p
        /\ s[i + 4] \in Whitespace
        /\ \A m \in (i + 5)..(p - 1) : s[m] # ">"
        /\ StartsAt(s, p, SrcAttr)
        /\ \E q \in (p + 5)..Len(s) : s[q] = "\"" /\ FirstAt(s, q + 1, ">") # 0
(***************************************************************************)
(* Properties of process_images (checked under Spec)                       *)
(***************************************************************************)

\* C1: with N >= 1 discovered images the run completes, no image that is
\* still to be processed is overwritten or removed by an earlier rename, and
\* dest_dir gains exactly the files base.image-001.ext .. base.image-N.ext,
\* the k-th holding the k-th discovered image.
C1_RenamesAllImages ==
    /\ pc # "raised"
    /\ pc = "loop" =>
          \A k \in (image_count + 1)..Images :
              /\ extracted_images[k] \in DOMAIN staging
              /\ staging[extracted_images[k]] = call.staging[extracted_images[k]]
    /\ Returned /\ Images >= 1 =>
          /\ DOMAIN dest = DOMAIN call.dest \cup {NameOf(k) : k \in 1..Images}
          /\ Cardinality({NameOf(k) : k \in 1..Images}) = Images
          /\ \A k \in 1..Images :
                /\ dest[NameOf(k)].id = extracted_images[k]
                /\ Suffix(NameOf(k)) = Suffix(extracted_images[k][Len(extracted_images[k])])

\* the text C2 expects for a segment: a reference to the k-th discovered
\* image reads ![[name of k]]; text stays
C2_Expected(seg) ==
    IF PointsAt(seg) # {} THEN Embed(NameOf(CHOOSE k \in PointsAt(seg) : TRUE))
    ELSE seg.text

C2_Segments(doc) == [k \in 1..Len(doc) |-> C2_Expected(doc[k])]

\* the documents C2 is stated for: references to discovered images, between
\* text that holds no markup and no path of a discovered image
C2_Covers(doc) ==
    \A k \in 1..Len(doc) :
        \/ PointsAt(doc[k]) # {} /\ WellFormedSegment(doc[k])
        \/ /\ doc[k].kind = "text"
           /\ Free(doc[k].text, Markup \cup Brackets)
           /\ SubstituteFirst(doc[k].text, Images) = doc[k].text

\* C2: every reference to a discovered image, by absolute or by relative
\* path, reads ![[new name]] in the returned Markdown, the new name being
\* the bare file name that image was given.
C2_ReferencesUseNewName ==
    Returned /\ Images >= 1 /\ C2_Covers(call.doc) =>
        markdown = Spaced(Concat(C2_Segments(call.doc)))

\* C3 as stated: with no image discovered the Markdown and HTML rewrites
\* are applied to the input.
C3_RewritesWithoutImages ==
    Returned /\ Images = 0 =>
        image_count = 0 /\ markdown = ImgTagSub(MdImageSub(InputMarkdown))

\* C3, amended: with no image discovered process_images returns count 0
\* and the input Markdown as it is; no rewrite rule is applied.
C3_UnchangedWithoutImages ==
    Returned /\ Images = 0 => image_count = 0 /\ markdown = InputMarkdown

C3_Witness ==
    /\ Returned /\ Images = 0
    /\ HasMarkdownImage(markdown) /\ HasImgTag(markdown)

RECURSIVE OutsideKept(_, _, _)
\* out, read from pos, is the segments of doc in order: each text as it
\* was, each reference as it was or as an embed ![[...]], with at most the
\* space of the adjacency fix between "]]" and "[["
OutsideKept(doc, out, pos) ==
    IF doc = <<>> THEN pos = Len(out) + 1
    ELSE LET seg == Head(doc)
             e   == IF StartsAt(out, pos, <<"!", "[", "[">>)
                    THEN SetMin({i \in (pos + 3)..(Len(out) + 1) :
                                    i = Len(out) + 1 \/ StartsAt(out, i, <<"]", "]">>)})
                    ELSE Len(out) + 1
         IN  \/ /\ pos > 2 /\ StartsAt(out, pos - 2, <<"]", "]", " ">>)
                /\ OutsideKept(doc, out, pos + 1)
             \/ /\ seg.kind = "text"
                /\ StartsAt(out, pos, seg.text)
                /\ OutsideKept(Tail(doc), out, pos + Len(seg.text))
             \/ /\ IsReference(seg)
                /\ StartsAt(out, pos, Render(seg))
                /\ OutsideKept(Tail(doc), out, pos + Len(Render(seg)))
             \/ /\ IsReference(seg)
                /\ e <= Len(out)
                /\ OutsideKept(Tail(doc), out, e + 2)

\* C4 as stated: whatever the document and the discovered images, the text
\* outside the image references is that of the input, character for
\* character.
C4_OutsideTextIdentical ==
    Returned /\ WellFormed(call.doc) => OutsideKept(call.doc, markdown, 1)

\* what a segment of a well-formed document becomes
C4_Expected(seg) ==
    IF IsReference(seg) THEN Embed(SubstituteFirst(seg.path, Images))
    ELSE SubstituteFirst(seg.text, Images)

C4_Segments(doc) == [k \in 1..Len(doc) |-> C4_Expected(doc[k])]

\* What process_images does to the text outside the references instead, for
\* a document of well-formed references and markup-free text: the path
\* substitution of step 1 is applied to it (a discovered image's absolute or
\* relative path is replaced by its new name wherever it occurs), and step 4
\* puts one space between "]]" and "[[" or "![["; every reference is the
\* embed of its substituted path; with no image the text is the input.
C4_OutsideTextSubstituted ==
    Returned /\ WellFormed(call.doc) =>
        markdown = IF Images = 0 THEN InputMarkdown
                   ELSE Spaced(Concat(C4_Segments(call.doc)))

C4_Witness ==
    /\ Returned /\ Images >= 1 /\ WellFormed(call.doc)
    /\ \E k \in 1..Len(call.doc) :
          /\ call.doc[k].kind = "text"
          /\ SubstituteFirst(call.doc[k].text, Images) # call.doc[k].text
    /\ \E k \in 1..Len(call.doc) : IsReference(call.doc[k])

C9_NeverAdjacent == Returned => NoAdjacency(markdown)

\* C9, amended: when at least one image is discovered, the last step puts
\* exactly one space into every "]]" directly followed by "[[" or "![[" and
\* changes nothing else, so the returned Markdown holds no such adjacency
\* and the fix applied to it again changes nothing.  (With no image the
\* Markdown is returned as it came.)
C9_AdjacencyFixed ==
    [][pc = "adjacent" /\ pc' = "return" =>
          /\ Images >= 1
          /\ markdown' = Spaced(markdown)
          /\ NoAdjacency(markdown')
          /\ AdjacentSub(markdown') = markdown']_vars

C9_Witness ==
    /\ Returned /\ Images >= 1
    /\ Contains(markdown, <<"]", "]", " ", "!", "[", "[">>)
    /\ ~Contains(InputMarkdown, <<"]", "]">>)

\* C10: every file that was in dest_dir before the call is there afterwards
\* under its name and with its content.
C10_DestFilesKept ==
    \A n \in DOMAIN call.dest : n \in DOMAIN dest /\ dest[n] = call.dest[n]

(***************************************************************************)
(* Properties of main (checked under SpecMain)                             *)
(***************************************************************************)

Parsed == mpc \notin {"load_dotenv", "parse_args"} /\ exit.status # <<2>>

\* the layer C5 makes decide an option: flag, then process environment,
\* then the current directory's .env, then the script directory's
C5_Resolved(o) ==
    LET from(l) == LayerOf(world.settings, l)[o]
    IN  IF from("flag") # Absent THEN from("flag")
        ELSE IF from("environ") # Absent THEN from("environ")
        ELSE IF from("cwd_dotenv") # Absent THEN from("cwd_dotenv")
        ELSE from("script_dotenv")

\* C5: each option is resolved flag > environment variable > .env file
\* (current directory over script directory) > default; a value of the
\* process environment is never replaced by one from a .env file.
C5_ResolutionOrder ==
    /\ mpc # "load_dotenv" =>
          \A o \in Options :
              LayerOf(world.settings, "environ")[o] # Absent =>
                  environ[o] = LayerOf(world.settings, "environ")[o]
    /\ Parsed =>
          /\ args.md_dir = C5_Resolved("md_dir")
          /\ args.image_dir = C5_Resolved("image_dir")
          /\ args.image_width =
                IF C5_Resolved("image_width") = Absent THEN Absent
                ELSE <<IntOf(C5_Resolved("image_width")[1])>>

\* C6: the base name is never empty and holds no path separator, for every
\* title and for the timestamp fallback.
C6_BaseNameSafe ==
    locals.source_format # None =>
        locals.base_name # <<>> /\ Free(locals.base_name, {"/", "\\"})

NoRichText == detect_clipboard_format(world.clipboard)[1] = None

\* C7: when the clipboard holds neither RTF nor HTML the run ends with a
\* diagnostic and a non-zero status, and at no point has it created a
\* directory, written a note or an image, run the converter or changed the
\* clipboard.
C7_NoRichTextNoEffect ==
    NoRichText =>
        /\ dirs = {Cwd} /\ notes = <<>> /\ dest = <<>> /\ staging = <<>>
        /\ pandoc_runs = 0
        /\ clipboard = world.clipboard
        /\ mpc = "exited" =>
              /\ exit.status # Absent /\ exit.status # <<0>>
              /\ exit.stderr # Absent
        /\ mpc \in {"load_dotenv", "parse_args", "check_pandoc", "detect", "exited"}

C7_Witness ==
    /\ NoRichText /\ world.clipboard.string # Absent
    /\ mpc = "exited"
    /\ exit = Exit(1, <<"No rich text (RTF or HTML) found on clipboard">>)
    /\ args.title # Absent /\ args.md_dir # Absent /\ args.image_dir # Absent
====
